---- MODULE Spec2Model ----
(***************************************************************************)
(* The remote-module plugin http() of the bake CLI (src/index.js) and the  *)
(* run()/compile() sequence that instantiates it.  Strings are sequences   *)
(* of one-character strings, so that the regular expression, lastIndexOf,  *)
(* substr and split of resolveId are computed as the code computes them.   *)
(***************************************************************************)
EXTENDS Naturals, Integers, Sequences, FiniteSets, TLC

VARIABLES
  targets,   \* how many of main, module, unpkg package.json names (1 also for `bake <input>`)
  watch,     \* cli.flags.watch
  imports,   \* the specifiers the sources being bundled import
  served,    \* the response bodies the remote servers serve
  plugins,   \* one entry per http() call: the instance's `urls` Map
  fetches,   \* one entry per http.get issued by the inner load(): request, response, promise
  crashed,   \* the process died of an uncaught 'error' event
  call,      \* history: the plugin-hook call made by the last step (NoCall otherwise)
  resolvedBy,\* history: per plugin instance, id -> the specifier of the last resolveId that returned id
  loads      \* history: number of load calls made on identifiers resolveId had returned

vars == <<targets, watch, imports, served, plugins, fetches, crashed, call, resolvedBy, loads>>

----------------------------------------------------------------------------
(* Bounds *)

\* load calls explored (each may issue one request)
MaxFetches == 2
\* length of the generated specifier tails of SpecResolve
MaxTail == 3

----------------------------------------------------------------------------
(* Strings *)

HttpPrefix  == <<"h","t","t","p",":","/","/">>
HttpsPrefix == <<"h","t","t","p","s",":","/","/">>

\* "https://h/u.js"
U1 == HttpsPrefix \o <<"h","/","u",".","j","s">>
\* "http://g/u.min.js": same final segment before the extension as U1
U2 == HttpPrefix \o <<"g","/","u",".","m","i","n",".","j","s">>
\* "https://h/v.js"
U3 == HttpsPrefix \o <<"h","/","v",".","j","s">>
\* "./u.js"
L1 == <<".","/","u",".","j","s">>

\* the specifiers of a project that imports three remote modules and a local one
Specifiers == {U1, U2, U3, L1}

StartsWith(s, p) == Len(s) >= Len(p) /\ SubSeq(s, 1, Len(p)) = p

\* String.prototype.lastIndexOf(c): 0-based, -1 when absent
lastIndexOf(s, c) ==
  IF \E i \in 1..Len(s) : s[i] = c
  THEN (CHOOSE i \in 1..Len(s) : s[i] = c /\ \A j \in (i+1)..Len(s) : s[j] # c) - 1
  ELSE -1

\* String.prototype.substr(from) with from >= 0
substr(s, from) == SubSeq(s, from + 1, Len(s))

\* s.split(c).shift(): the text before the first c, all of s when c is absent
splitShift(s, c) ==
  IF \E i \in 1..Len(s) : s[i] = c
  THEN SubSeq(s, 1, (CHOOSE i \in 1..Len(s) : s[i] = c /\ \A j \in 1..(i-1) : s[j] # c) - 1)
  ELSE s

----------------------------------------------------------------------------
(* The plugin object returned by http() *)

NoMatch == <<>>

\* httpExp.exec(id) for /^https?:\/\//: match[0], or NoMatch for null
httpExp(id) ==
  LET n == IF Len(id) >= 5 /\ id[5] = "s" THEN 5 ELSE 4
  IN  IF StartsWith(id, <<"h","t","t","p">>) /\ StartsWith(substr(id, n), <<":","/","/">>)
      THEN SubSeq(id, 1, n + 3)
      ELSE NoMatch

EmptyMap == [k \in {} |-> [isHttps |-> FALSE, url |-> <<>>]]

\* a mutant of mapSet: an existing entry is kept (first resolve wins)
mapSetFirstWins(urls, k, r) ==
  [x \in DOMAIN urls \cup {k} |-> IF x \in DOMAIN urls THEN urls[x] ELSE r]

\* a mutant of mapSet: the table is rebuilt with the new entry alone
mapSetFresh(urls, k, r) ==
  [x \in {k} |-> r]

\* urls.set(k, r)
mapSet(urls, k, r) ==
  [x \in DOMAIN urls \cup {k} |-> IF x = k THEN r ELSE urls[x]]

\* a mutant of http: the Map is created once and shared by every instance
httpShared ==
  IF plugins = <<>> THEN EmptyMap ELSE plugins[1]

\* http(): `let urls = new Map()` of a new plugin instance
http ==
  EmptyMap

Undefined  == [kind |-> "undefined", id |-> <<>>]
IdOf(x)    == [kind |-> "id", id |-> x]
PromiseRet == [kind |-> "promise", id |-> <<>>]

\* newId of resolveId: the text after the last "/", cut before the first "."
newId(id) ==
  LET idx == lastIndexOf(id, "/")
      pth == substr(id, idx + 1)
  IN  splitShift(pth, ".")

\* a mutant of resolveId: the `if (match)` test is missing
resolveIdNoGuard(p, id) ==
  [ret  |-> IdOf(newId(id)),
   urls |-> mapSet(plugins[p], newId(id), [isHttps |-> httpExp(id) = HttpsPrefix, url |-> id])]

\* resolveId(id) on instance p: the value returned and the Map afterwards
resolveId(p, id) ==
  LET match == httpExp(id)
  IN  IF match # NoMatch
      THEN [ret  |-> IdOf(newId(id)),
            urls |-> mapSet(plugins[p], newId(id), [isHttps |-> match = HttpsPrefix, url |-> id])]
      ELSE [ret |-> Undefined, urls |-> plugins[p]]

\* a mutant of loadUrl: the transport ignores isHttps
loadUrlPlain(url, isHttps) ==
  [url |-> url, transport |-> "http"]

\* the inner load(url, isHttps): the http.get it issues
loadUrl(url, isHttps) ==
  [url |-> url, transport |-> IF isHttps THEN "https" ELSE "http"]

\* a mutant of load: an id missing from the Map is fetched as if it were a URL
loadFallback(p, id) ==
  IF id \in DOMAIN plugins[p]
  THEN [handled |-> TRUE, gets |-> <<loadUrl(plugins[p][id].url, plugins[p][id].isHttps)>>]
  ELSE [handled |-> TRUE, gets |-> <<loadUrl(id, FALSE)>>]

\* a mutant of load: an id already fetched by this instance is served without a request
loadCached(p, id) ==
  IF id \in DOMAIN plugins[p]
  THEN [handled |-> TRUE,
        gets |-> IF \E i \in 1..Len(fetches) : fetches[i].plugin = p /\ fetches[i].id = id
                 THEN <<>>
                 ELSE <<loadUrl(plugins[p][id].url, plugins[p][id].isHttps)>>]
  ELSE [handled |-> FALSE, gets |-> <<>>]

\* load(id) on instance p: whether a promise is returned, and the requests issued
load(p, id) ==
  IF id \in DOMAIN plugins[p]
  THEN [handled |-> TRUE, gets |-> <<loadUrl(plugins[p][id].url, plugins[p][id].isHttps)>>]
  ELSE [handled |-> FALSE, gets |-> <<>>]

----------------------------------------------------------------------------
(* The response stream *)

\* response bodies as bytes: "a" is an ASCII byte, "L","C" the two bytes of one
\* UTF-8 character (lead byte, continuation byte)
Ascii == { <<"a">> }
Bodies == { <<"a">>, <<"L","C">> }

\* the body as text: the UTF-8 decoding of all its bytes ("E" is the two-byte
\* character, "R" is U+FFFD)
RECURSIVE Utf8(_)
Utf8(b) ==
  IF b = <<>> THEN <<>>
  ELSE IF b[1] = "L" /\ Len(b) >= 2 /\ b[2] = "C" THEN <<"E">> \o Utf8(SubSeq(b, 3, Len(b)))
  ELSE IF b[1] \in {"L", "C"} THEN <<"R">> \o Utf8(Tail(b))
  ELSE <<b[1]>> \o Utf8(Tail(b))

\* `body += data`: data is a Buffer, appended as data.toString()
appendData(body, data) ==
  body \o Utf8(data)

----------------------------------------------------------------------------
(* run(), compile() and the host's calls of the plugin hooks *)

\* the targets run() compiles in turn, each only when package.json names it
Targets == <<"main", "module", "unpkg">>

NoCall == [op |-> "none", plugin |-> 0, arg |-> <<>>, ret |-> Undefined]

\* the process before run(): no compile yet
Start ==
  /\ plugins = <<>>
  /\ fetches = <<>>
  /\ crashed = FALSE
  /\ call = NoCall
  /\ resolvedBy = <<>>
  /\ loads = 0

\* one build (`bake <input>`, or one target in package.json) of a project that
\* imports Specifiers, from servers of ASCII files
Init ==
  /\ targets = 1
  /\ watch \in BOOLEAN
  /\ imports = Specifiers
  /\ served = Ascii
  /\ Start

\* every promise the hooks of instance p returned has settled
Settled(p) ==
  \A i \in 1..Len(fetches) : fetches[i].plugin = p => fetches[i].promise # "pending"

\* run() is past its previous `await compile(...)`: with --watch compile returns
\* once the watcher is set up, otherwise after rollup() and bundle.write()
Awaited ==
  watch \/ plugins = <<>> \/ Settled(Len(plugins))

\* the host calls the hooks of instance p: of the running build, or with
\* --watch of any watcher
Active(p) ==
  p \in 1..Len(plugins) /\ (watch \/ p = Len(plugins))

\* the ids the host asks load for: what resolveId made of the remote imports,
\* and the other imports as they are
LoadIds ==
  {newId(s) : s \in {x \in imports : httpExp(x) # NoMatch}}
    \cup {x \in imports : httpExp(x) = NoMatch}

\* compile(): builds the plugin list, http() included, and starts the build
Compile ==
  /\ ~crashed
  /\ Len(plugins) < targets
  /\ Awaited
  /\ plugins' = Append(plugins, http)
  /\ resolvedBy' = Append(resolvedBy, [k \in {} |-> <<>>])
  /\ call' = NoCall
  /\ UNCHANGED <<targets, watch, imports, served, fetches, crashed, loads>>

\* the host calls resolveId(id) of instance p
ResolveId(p, id) ==
  /\ ~crashed
  /\ Active(p)
  /\ LET r == resolveId(p, id)
     IN  /\ plugins' = [plugins EXCEPT ![p] = r.urls]
         /\ call' = [op |-> "resolveId", plugin |-> p, arg |-> id, ret |-> r.ret]
         /\ resolvedBy' =
              IF r.ret.kind = "id"
              THEN [resolvedBy EXCEPT ![p] =
                      [k \in DOMAIN resolvedBy[p] \cup {r.ret.id} |->
                         IF k = r.ret.id THEN id ELSE resolvedBy[p][k]]]
              ELSE resolvedBy
  /\ UNCHANGED <<targets, watch, imports, served, fetches, crashed, loads>>

\* the request, response and promise of one http.get issued for id by instance p
NewFetch(p, id, get) ==
  [plugin |-> p, id |-> id,
   want |-> IF id \in DOMAIN resolvedBy[p] THEN resolvedBy[p][id] ELSE <<>>,
   url |-> get.url, transport |-> get.transport,
   st |-> "requested", sent |-> <<>>, wire |-> <<>>, body |-> <<>>,
   promise |-> "pending", value |-> <<>>]

\* the host calls load(id) of instance p
Load(p, id) ==
  /\ ~crashed
  /\ Active(p)
  /\ Len(fetches) < MaxFetches
  /\ LET r == load(p, id)
     IN  /\ fetches' = fetches \o [i \in 1..Len(r.gets) |-> NewFetch(p, id, r.gets[i])]
         /\ call' = [op |-> "load", plugin |-> p, arg |-> id,
                     ret |-> IF r.handled THEN PromiseRet ELSE Undefined]
  /\ loads' = IF id \in DOMAIN resolvedBy[p] THEN loads + 1 ELSE loads
  /\ UNCHANGED <<targets, watch, imports, served, plugins, crashed, resolvedBy>>

----------------------------------------------------------------------------
(* The network: the events of one http.get *)

\* the response arrives: the callback of http.get runs, `let body = ""`
Respond(i) ==
  /\ ~crashed
  /\ fetches[i].st = "requested"
  /\ \E b \in served :
       fetches' = [fetches EXCEPT ![i].st = "responding", ![i].sent = b,
                                  ![i].wire = b, ![i].body = <<>>]
  /\ call' = NoCall
  /\ UNCHANGED <<targets, watch, imports, served, plugins, crashed, resolvedBy, loads>>

\* 'data': the next n bytes of the response arrive as one chunk
Data(i) ==
  /\ ~crashed
  /\ fetches[i].st = "responding"
  /\ \E n \in 1..Len(fetches[i].wire) :
       fetches' = [fetches EXCEPT
                     ![i].body = appendData(@, SubSeq(fetches[i].wire, 1, n)),
                     ![i].wire = SubSeq(@, n + 1, Len(@))]
  /\ call' = NoCall
  /\ UNCHANGED <<targets, watch, imports, served, plugins, crashed, resolvedBy, loads>>

\* 'end': resolve(body)
End(i) ==
  /\ ~crashed
  /\ fetches[i].st = "responding"
  /\ fetches[i].wire = <<>>
  /\ fetches' = [fetches EXCEPT ![i].st = "ended", ![i].promise = "resolved",
                                ![i].value = fetches[i].body]
  /\ call' = NoCall
  /\ UNCHANGED <<targets, watch, imports, served, plugins, crashed, resolvedBy, loads>>

\* the request fails before a response (unreachable host, connection refused):
\* the request emits 'error', which has no listener, and the process dies of the
\* uncaught exception; reject is never called
RequestError(i) ==
  /\ ~crashed
  /\ fetches[i].st = "requested"
  /\ fetches' = [fetches EXCEPT ![i].st = "failed"]
  /\ crashed' = TRUE
  /\ call' = NoCall
  /\ UNCHANGED <<targets, watch, imports, served, plugins, resolvedBy, loads>>

\* the connection is lost during the response: 'aborted' and 'close' are emitted,
\* never 'end'; neither has a listener and reject is never called
Aborted(i) ==
  /\ ~crashed
  /\ fetches[i].st = "responding"
  /\ fetches' = [fetches EXCEPT ![i].st = "failed", ![i].wire = <<>>]
  /\ call' = NoCall
  /\ UNCHANGED <<targets, watch, imports, served, plugins, crashed, resolvedBy, loads>>

Next ==
  \/ Compile
  \/ \E p \in 1..Len(plugins) : \E id \in imports : ResolveId(p, id)
  \/ \E p \in 1..Len(plugins) : \E id \in LoadIds : Load(p, id)
  \/ \E i \in 1..Len(fetches) : Respond(i)
  \/ \E i \in 1..Len(fetches) : Data(i)
  \/ \E i \in 1..Len(fetches) : End(i)
  \/ \E i \in 1..Len(fetches) : RequestError(i)
  \/ \E i \in 1..Len(fetches) : Aborted(i)

Spec == Init /\ [][Next]_vars

\* run() with all three targets in package.json, of a project with one remote
\* and one local import
InitRun ==
  /\ targets = Len(Targets)
  /\ watch \in BOOLEAN
  /\ imports = {U1, L1}
  /\ served = Ascii
  /\ Start

SpecRun == InitRun /\ [][Next]_vars

\* one build of a project with one remote import, from servers of any file
InitStream ==
  /\ targets = 1
  /\ watch = FALSE
  /\ imports = {U1}
  /\ served = Bodies
  /\ Start

SpecStream == InitStream /\ [][Next]_vars

----------------------------------------------------------------------------
(* resolveId on generated specifiers *)

TailChars == {"/", ".", "u", "v"}
Tails == UNION {[1..n -> TailChars] : n \in 0..MaxTail}
Prefixes ==
  {HttpPrefix, HttpsPrefix, <<".","/">>, <<"x">> \o HttpPrefix, <<"h","t","t","p",":","/">>}
GenSpecifiers == {pre \o tl : pre \in Prefixes, tl \in Tails}

InitResolve ==
  /\ targets = 1
  /\ watch = FALSE
  /\ imports = GenSpecifiers
  /\ served = Ascii
  /\ Start

\* the first hook call of the build is resolveId of one of the imports
FirstResolve ==
  /\ call = NoCall
  /\ \E id \in imports : ResolveId(1, id)

NextResolve ==
  \/ Compile
  \/ FirstResolve

SpecResolve == InitResolve /\ [][NextResolve]_vars

----------------------------------------------------------------------------
(* Properties *)

BeginsHttp(s) == StartsWith(s, HttpPrefix) \/ StartsWith(s, HttpsPrefix)

\* r is the text of s after its last "/", cut before the first "." of that text
IsShortIdOf(r, s) ==
  \E i \in 1..Len(s) :
    /\ s[i] = "/"
    /\ \A j \in (i+1)..Len(s) : s[j] # "/"
    /\ Len(r) <= Len(s) - i
    /\ \A j \in 1..Len(r) : r[j] = s[i + j] /\ r[j] # "."
    /\ (Len(r) = Len(s) - i \/ s[i + Len(r) + 1] = ".")

\* C1: for every specifier that begins with "http://" or "https://", resolveId
\* returns a non-empty identifier, the text after the last "/" cut before the
\* first "." of that text.
C1_ResolveReturnsNonEmptyId ==
  (call.op = "resolveId" /\ BeginsHttp(call.arg)) =>
    /\ call.ret.kind = "id"
    /\ call.ret.id # <<>>
    /\ IsShortIdOf(call.ret.id, call.arg)

\* the part of C1 the code meets: the identifier is that text, empty or not
ResolveReturnsSegment ==
  (call.op = "resolveId" /\ BeginsHttp(call.arg)) =>
    /\ call.ret.kind = "id"
    /\ IsShortIdOf(call.ret.id, call.arg)

\* C2: resolveId of a specifier that does not begin with "http://" or "https://"
\* returns undefined and leaves the table as it was, so that load handles after
\* the call exactly the ids it handled before it.
C2_NonHttpResolveIsNoOp ==
  [][(call'.op = "resolveId" /\ ~BeginsHttp(call'.arg)) =>
       /\ call'.ret = Undefined
       /\ plugins' = plugins
       /\ fetches' = fetches
       /\ \A p \in 1..Len(plugins) : \A id \in LoadIds : load(p, id)' = load(p, id)]_vars

C2_Witness ==
  /\ call.op = "resolveId"
  /\ call.arg = L1
  /\ call.ret = Undefined
  /\ DOMAIN plugins[call.plugin] = {<<"u">>, <<"v">>}

\* C3: load(id) of an identifier that no earlier resolveId call of the instance
\* returned returns undefined and issues no request.
C3_UnresolvedLoadIsNoOp ==
  [][(call'.op = "load" /\ call'.arg \notin DOMAIN resolvedBy[call'.plugin]) =>
       /\ call'.ret = Undefined
       /\ fetches' = fetches]_vars

C3_Witness ==
  /\ call.op = "load"
  /\ call.arg = <<"v">>
  /\ call.ret = Undefined
  /\ <<"u">> \in DOMAIN resolvedBy[call.plugin]
  /\ <<"v">> \notin DOMAIN resolvedBy[call.plugin]
  /\ Len(fetches) = 1

\* C4: load(id) of an identifier resolveId returned issues exactly one request,
\* to the URL last recorded for the identifier, over https if and only if that
\* specifier began with "https://", over http otherwise.
C4_ResolvedLoadIssuesOneRequest ==
  [][(call'.op = "load" /\ call'.arg \in DOMAIN resolvedBy[call'.plugin]) =>
       /\ call'.ret = PromiseRet
       /\ Len(fetches') = Len(fetches) + 1
       /\ SubSeq(fetches', 1, Len(fetches)) = fetches
       /\ LET f == fetches'[Len(fetches')]
              s == resolvedBy[call'.plugin][call'.arg]
          IN  /\ f.url = s
              /\ f.transport = (IF StartsWith(s, HttpsPrefix) THEN "https" ELSE "http")
              /\ f.st = "requested"]_vars

C4_Witness ==
  /\ Len(fetches) = 2
  /\ fetches[1].url = U2 /\ fetches[1].transport = "http"
  /\ fetches[2].url = U3 /\ fetches[2].transport = "https"
  /\ call.op = "load"

\* C5: two distinct URLs with the same final segment before the extension get
\* the same identifier; the table holds for it the record of the last resolveId
\* that returned it, and every load fetched the URL of the most recent resolveId
\* that had returned its identifier when load was called.
C5_LastResolveWins ==
  /\ U1 # U2 /\ newId(U1) = newId(U2)
  /\ \A p \in 1..Len(plugins) :
       /\ DOMAIN plugins[p] = DOMAIN resolvedBy[p]
       /\ \A id \in DOMAIN plugins[p] : plugins[p][id].url = resolvedBy[p][id]
  /\ \A i \in 1..Len(fetches) : fetches[i].url = fetches[i].want

C5_Witness ==
  /\ Len(fetches) = 2
  /\ fetches[1].plugin = fetches[2].plugin
  /\ fetches[1].id = <<"u">> /\ fetches[2].id = <<"u">>
  /\ fetches[1].url = U1
  /\ fetches[2].url = U2

\* C6: the promise of a load resolves only when the response ends, and with the
\* response body verbatim: the text of all the bytes of that load's own
\* response, in arrival order, whatever the interleaving with other loads.
C6_LoadDeliversBodyVerbatim ==
  \A i \in 1..Len(fetches) :
    fetches[i].promise = "resolved" =>
      /\ fetches[i].st = "ended"
      /\ fetches[i].value = Utf8(fetches[i].sent)

\* C7: a resolveId call issues no request and changes no fetch; the only table
\* entry it changes is the one keyed by the identifier it returns. Requests are
\* issued by load calls only.
C7_ResolveIsBookkeeping ==
  [][/\ call'.op = "resolveId" =>
          /\ fetches' = fetches
          /\ crashed' = crashed
          /\ Len(plugins') = Len(plugins)
          /\ \A q \in 1..Len(plugins) :
               \A k \in DOMAIN plugins[q] \cup DOMAIN plugins'[q] :
                 (q # call'.plugin \/ call'.ret.kind # "id" \/ k # call'.ret.id) =>
                   /\ k \in DOMAIN plugins[q]
                   /\ k \in DOMAIN plugins'[q]
                   /\ plugins'[q][k] = plugins[q][k]
     /\ Len(fetches') > Len(fetches) => call'.op = "load"]_vars

C7_Witness ==
  /\ call.op = "resolveId"
  /\ call.ret = IdOf(<<"u">>)
  /\ call.arg = U2
  /\ plugins[call.plugin][<<"u">>].url = U2
  /\ <<"v">> \in DOMAIN plugins[call.plugin]
  /\ Len(fetches) = 2
  /\ fetches[1].url = U1 /\ fetches[1].st = "responding"
  /\ fetches[2].st = "requested"

\* C8: no table entry is ever deleted, so every load of an identifier resolveId
\* has returned is handled; nothing is cached, so the number of requests issued
\* equals the number of load calls made on resolved identifiers.
C8_NoDeleteNoCache ==
  /\ \A p \in 1..Len(plugins) : DOMAIN resolvedBy[p] \subseteq DOMAIN plugins[p]
  /\ (call.op = "load" /\ call.arg \in DOMAIN resolvedBy[call.plugin]) =>
       call.ret = PromiseRet
  /\ Len(fetches) = loads

C8_Witness ==
  /\ Len(fetches) = 2
  /\ fetches[1].plugin = fetches[2].plugin
  /\ fetches[1].id = fetches[2].id
  /\ fetches[1].url = fetches[2].url
  /\ fetches[1].promise = "resolved"
  /\ call.op = "load"
  /\ loads = 2

\* C9: once load has issued a fetch, a failure of the request surfaces: the
\* promise of a failed fetch is rejected, or the build has died of the error;
\* it does not stay pending.
C9_FailureSurfaces ==
  \A i \in 1..Len(fetches) :
    fetches[i].st = "failed" => (fetches[i].promise = "rejected" \/ crashed)

\* C10: every compile builds its own plugin instance with its own, initially
\* empty table: an instance owns exactly the identifiers resolved in its own
\* compile, and a resolveId call changes no other instance's table.
C10_TablePerCompile ==
  [][/\ \A p \in 1..Len(plugins') : DOMAIN plugins'[p] = DOMAIN resolvedBy'[p]
     /\ Len(plugins') > Len(plugins) => plugins'[Len(plugins')] = EmptyMap
     /\ call'.op = "resolveId" =>
          \A q \in 1..Len(plugins) : q # call'.plugin => plugins'[q] = plugins[q]
     /\ (call'.op = "load" /\ call'.arg \notin DOMAIN resolvedBy[call'.plugin]) =>
          call'.ret = Undefined /\ fetches' = fetches]_vars

C10_Witness ==
  /\ Len(plugins) = 3
  /\ <<"u">> \in DOMAIN plugins[1]
  /\ <<"u">> \notin DOMAIN plugins[2]
  /\ <<"u">> \in DOMAIN plugins[3]
  /\ call.op = "load" /\ call.plugin = 2 /\ call.arg = <<"u">>
  /\ call.ret = Undefined
  /\ Len(fetches) = 1 /\ fetches[1].plugin = 1

====
